---- MODULE Spec2Model ----
(***************************************************************************)
(* A model of the Hopping Bunny game: the Game class (session state, frame *)
(* loop, camera, score, difficulty; src/js/auth.js from line 349) and the  *)
(* Platform / PlatformManager classes (src/unnamed/part_000).              *)
(*                                                                         *)
(* Numbers.  Lengths are pixels and are integers; a JavaScript double that *)
(* the code computes with a fractional factor (0.7 * height, the camera    *)
(* easing) is the floor of the exact value.  breakProgress and             *)
(* disappearTimer are counted in hundredths, opacity in 1/6000.            *)
(*                                                                         *)
(* Randomness.  Every Math.random() / Utils.randomBetween draw of one      *)
(* handler is taken from the record rnd that the handler's action chooses: *)
(* rnd.u, rnd.uw, rnd.ux (percent of the way from min to max, for the      *)
(* randomBetween of a vertical position, a width, a horizontal position),  *)
(* and rnd.chance, rnd.rand, rnd.coin (Math.random() in percent).          *)
(***************************************************************************)
EXTENDS Integers, Sequences, FiniteSets, TLC

Abs(n) == IF n < 0 THEN -n ELSE n
Min(a, b) == IF a < b THEN a ELSE b
Max(a, b) == IF a > b THEN a ELSE b
Last3(s) == SubSeq(s, Max(1, Len(s) - 2), Len(s))

(***************************************************************************)
(* Program constants                                                       *)
(***************************************************************************)
MinGapY == 70
MaxGapY == 110
InitialPlatformHeight == 20
InitialDensity == 10
InitialPlatformDensity == 1
InitialMinWidth == 60
InitialMaxWidth == 120
InitialPlatformCount == 15
MaxVelocityX == 2
DisappearFrames == 60
PlayerWidth == 60
PlayerHeight == 100
MaxDeltaTime == 50
ThousandStep == 1000
OpacityOne == 6000

(***************************************************************************)
(* Utils (not part of the sources at hand)                                 *)
(***************************************************************************)
\* Utils.randomBetween(min, max): a value between min and max; u is the draw.
randomBetween(min, max, u) == min + ((max - min) * u) \div 100

\* Utils.ease(current, target, easing): easing is in hundredths.
ease(current, target, easing) == current + ((target - current) * easing) \div 100

(***************************************************************************)
(* Platform                                                                *)
(***************************************************************************)
\* new Platform(x, y, width, height, type).  direction is read by moving
\* platforms only, so the draw is recorded for them alone.  origin and id
\* are history fields: who created the platform, and a serial number.
Platform(x, y, width, height, type, rnd) ==
    [x |-> x, y |-> y, width |-> width, height |-> height,
     type |-> type, active |-> TRUE,
     opacity |-> OpacityOne, breakProgress |-> 0,
     direction |-> IF type = "moving" /\ rnd.coin <= 50 THEN -1 ELSE 1,
     disappearTimer |-> 0,
     origin |-> "game", id |-> 0]

\* Platform.update(deltaTime, canvasWidth)
PlatformUpdate(p, deltaTime, canvasWidth) ==
    CASE p.type = "moving" ->
           LET nx == p.x + p.direction * MaxVelocityX
           IN [p EXCEPT !.x = nx,
                        !.direction = IF nx <= 0 \/ nx + p.width >= canvasWidth
                                      THEN -p.direction ELSE p.direction]
      [] p.type = "breakable" /\ p.breakProgress > 0 ->
           LET bp == p.breakProgress + deltaTime * 5
           IN [p EXCEPT !.breakProgress = bp,
                        !.opacity = OpacityOne - 60 * bp,
                        !.active = IF bp >= 100 THEN FALSE ELSE p.active]
      [] p.type = "disappearing" /\ p.disappearTimer > 0 ->
           LET t == p.disappearTimer + deltaTime * 100
           IN [p EXCEPT !.disappearTimer = t,
                        !.opacity = OpacityOne - t,
                        !.active = IF t >= DisappearFrames * 100 THEN FALSE ELSE p.active]
      [] OTHER -> p

\* Platform.break(): breakProgress = 0.01
PlatformBreak(p) ==
    IF p.type = "breakable" THEN [p EXCEPT !.breakProgress = 1] ELSE p

\* Platform.startDisappearing(): disappearTimer = 0.01
startDisappearing(p) ==
    IF p.type = "disappearing" THEN [p EXCEPT !.disappearTimer = 1] ELSE p

(***************************************************************************)
(* PlatformManager                                                         *)
(***************************************************************************)
\* push with the history fields filled in
pushPlatform(pm, p, origin) ==
    [pm EXCEPT !.platforms = Append(pm.platforms,
                                    [p EXCEPT !.origin = origin, !.id = pm.nextId]),
               !.nextId = pm.nextId + 1]

\* a choice of type without the rule for scores 300 to 310
choosePlatformTypeUnbanded(pm, newY, rnd) ==
    LET score10 == Abs(newY)
        lastFew == Last3(pm.platforms)
        lastFewTypes == {lastFew[i].type : i \in 1..Len(lastFew)}
        banded ==
          IF score10 < 3000
          THEN (IF rnd.rand < 60 THEN "bouncy"
                ELSE IF rnd.rand < 90 THEN "moving" ELSE "normal")
          ELSE (IF rnd.rand < 40 THEN "bouncy"
                ELSE IF rnd.rand < 70 THEN "moving"
                ELSE IF rnd.rand < 90 THEN "breakable" ELSE "disappearing")
    IN IF rnd.chance * 100 >= Min(6000, 2000 + score10) THEN "normal"
       ELSE IF banded = "disappearing" /\ "disappearing" \in lastFewTypes THEN "normal"
       ELSE banded

\* the type generatePlatform chooses for a platform at newY
choosePlatformType(pm, newY, rnd) ==
    LET score10 == Abs(newY)                          \* score * 10
        specialChance == Min(6000, 2000 + score10)    \* in 1/10000
        banded ==
          IF score10 < 3000
          THEN (IF rnd.rand < 60 THEN "bouncy"
                ELSE IF rnd.rand < 90 THEN "moving" ELSE "normal")
          ELSE IF score10 < 10000
          THEN (IF rnd.rand < 40 THEN "bouncy"
                ELSE IF rnd.rand < 70 THEN "moving"
                ELSE IF rnd.rand < 90 THEN "breakable" ELSE "disappearing")
          ELSE (IF rnd.rand < 25 THEN "bouncy"
                ELSE IF rnd.rand < 50 THEN "moving"
                ELSE IF rnd.rand < 75 THEN "breakable" ELSE "disappearing")
        lastFew == Last3(pm.platforms)
        lastFewTypes == {lastFew[i].type : i \in 1..Len(lastFew)}
        spaced ==
          IF banded = "disappearing" /\ "disappearing" \in lastFewTypes
          THEN "normal"
          ELSE IF banded = "breakable" /\ "breakable" \in lastFewTypes
                  /\ "disappearing" \in lastFewTypes
          THEN (IF rnd.coin < 50 THEN "bouncy" ELSE "normal")
          ELSE banded
    IN IF rnd.chance * 100 < specialChance
       THEN (IF score10 >= 3000 /\ score10 <= 3100
             THEN (IF rnd.coin < 70 THEN "normal" ELSE "bouncy")
             ELSE spaced)
       ELSE "normal"

\* a generatePlatform whose gap may be twice as large
generatePlatformLoose(pm, rnd) ==
    LET gap == randomBetween(pm.minGapY, pm.maxGapY * 2, rnd.u)
        newY == pm.highestPlatformY - gap
        platform == Platform(0, newY, pm.minWidth, pm.platformHeight, "normal", rnd)
        pm1 == [pm EXCEPT !.highestPlatformY = newY,
                          !.genLog = Append(pm.genLog, [y |-> newY, type |-> "normal",
                                                        fixed |-> FALSE])]
    IN pushPlatform(pm1, platform, "generated")

\* PlatformManager.generatePlatform(); genLog is the history of the platforms
\* that generateInitialPlatforms and generatePlatform have laid down
generatePlatform(pm, rnd) ==
    LET gap == randomBetween(pm.minGapY, pm.maxGapY, rnd.u)
        newY == pm.highestPlatformY - gap
        width == randomBetween(pm.minWidth, pm.maxWidth, rnd.uw)
        x == randomBetween(0, pm.canvasWidth - width, rnd.ux)
        type == choosePlatformType(pm, newY, rnd)
        platform == Platform(x, newY, width, pm.platformHeight, type, rnd)
        pm1 == [pm EXCEPT !.highestPlatformY = newY,
                          !.genLog = Append(pm.genLog, [y |-> newY, type |-> type,
                                                        fixed |-> FALSE])]
    IN pushPlatform(pm1, platform, "generated")

RECURSIVE generateTimes(_, _, _)
\* n calls of generatePlatform in a row: the first half of them, then the
\* rest (nextId is positive; testing it has the first half computed before
\* the rest begins)
generateTimes(pm, n, rnd) ==
    IF n <= 0 THEN pm
    ELSE IF n = 1 THEN generatePlatform(pm, rnd)
    ELSE LET firstHalf == generateTimes(pm, n \div 2, rnd)
         IN IF firstHalf.nextId > 0
            THEN generateTimes(firstHalf, n - n \div 2, rnd)
            ELSE firstHalf

RECURSIVE fixedPlatforms(_, _, _)
\* the loop "for (let i = 0; i < 5; i++)" of generateInitialPlatforms
fixedPlatforms(pm, i, rnd) ==
    IF i >= 5 THEN pm
    ELSE LET x == randomBetween(0, pm.canvasWidth - 100, rnd.ux)
             y == pm.canvasHeight - 200 - (i * 70)
             platform == Platform(x, y, 100, pm.platformHeight, "normal", rnd)
             pm1 == [pm EXCEPT !.highestPlatformY = Min(pm.highestPlatformY, y),
                               !.genLog = Append(pm.genLog, [y |-> y, type |-> "normal",
                                                             fixed |-> TRUE])]
         IN fixedPlatforms(pushPlatform(pm1, platform, "initial"), i + 1, rnd)

\* PlatformManager.generateInitialPlatforms(count)
generateInitialPlatforms(pm, count, rnd) ==
    LET startPlatform == Platform(pm.canvasWidth \div 2 - 75, pm.canvasHeight - 100,
                                  150, pm.platformHeight, "normal", rnd)
        pm1 == [pm EXCEPT !.highestPlatformY = startPlatform.y,
                          !.genLog = Append(pm.genLog, [y |-> startPlatform.y,
                                                        type |-> "normal", fixed |-> TRUE])]
        pm2 == fixedPlatforms(pushPlatform(pm1, startPlatform, "initial"), 0, rnd)
    IN generateTimes(pm2, (count + 5) - 6, rnd)

\* new PlatformManager(canvasWidth, canvasHeight, initialPlatformCount); fill
\* is a history field, what the last density top-up found (see fillDensity)
PlatformManager(canvasWidth, canvasHeight, initialPlatformCount, rnd) ==
    generateInitialPlatforms(
        [canvasWidth |-> canvasWidth, canvasHeight |-> canvasHeight,
         platforms |-> << >>,
         platformHeight |-> InitialPlatformHeight,
         minGapY |-> MinGapY, maxGapY |-> MaxGapY,
         highestPlatformY |-> canvasHeight,
         density |-> InitialDensity,
         minWidth |-> InitialMinWidth, maxWidth |-> InitialMaxWidth,
         platformDensity |-> InitialPlatformDensity,
         genLog |-> << >>, nextId |-> 1,
         fill |-> [visible |-> 0, threshold |-> 0, cameraY |-> 0, canvasHeight |-> 0,
                   frontier |-> 0, from |-> 0]],
        initialPlatformCount, rnd)

\* a look-ahead that lays down one platform for each call of update
generateAheadOnce(pm, cameraY, rnd) ==
    IF pm.highestPlatformY > cameraY - pm.canvasHeight * 2
    THEN generatePlatform(pm, rnd) ELSE pm

\* while (this.highestPlatformY > cameraY - this.canvasHeight * 2) generatePlatform():
\* every call lowers highestPlatformY by the gap the handler draws, so the loop
\* makes ceil(ahead / gap) calls
generateAhead(pm, cameraY, rnd) ==
    LET gap == randomBetween(pm.minGapY, pm.maxGapY, rnd.u)
        ahead == pm.highestPlatformY - (cameraY - pm.canvasHeight * 2)
    IN IF ahead > 0 THEN generateTimes(pm, (ahead + gap - 1) \div gap, rnd) ELSE pm

\* a top-up that adds its two platforms whatever the band holds
fillDensityAlways(pm, cameraY, rnd) ==
    LET InBand(p) == p.y >= cameraY - 100 /\ p.y <= cameraY + pm.canvasHeight + 100
        y == cameraY + randomBetween(100, pm.canvasHeight - 100, rnd.u)
        fillPlatform == Platform(0, y, pm.minWidth, pm.platformHeight, "normal", rnd)
        pm1 == [pm EXCEPT !.fill = [visible |-> Len(SelectSeq(pm.platforms, InBand)),
                                    threshold |-> pm.density * pm.platformDensity,
                                    cameraY |-> cameraY, canvasHeight |-> pm.canvasHeight,
                                    frontier |-> pm.highestPlatformY, from |-> pm.nextId]]
    IN pushPlatform(pushPlatform(pm1, fillPlatform, "filler"), fillPlatform, "filler")

\* the density top-up at the end of PlatformManager.update; pm.fill records
\* what it found: the number of platforms in the band, the threshold, the
\* camera offset and canvas height, highestPlatformY and the serial number
\* of the next platform when it began
fillDensity(pm, cameraY, rnd) ==
    LET InBand(p) == p.y >= cameraY - 100 /\ p.y <= cameraY + pm.canvasHeight + 100
        visiblePlatforms == SelectSeq(pm.platforms, InBand)
        y == cameraY + randomBetween(100, pm.canvasHeight - 100, rnd.u)
        width == randomBetween(pm.minWidth, pm.maxWidth, rnd.uw)
        x == randomBetween(0, pm.canvasWidth - width, rnd.ux)
        fillPlatform == Platform(x, y, width, pm.platformHeight, "normal", rnd)
        pm1 == [pm EXCEPT !.fill = [visible |-> Len(visiblePlatforms),
                                    threshold |-> pm.density * pm.platformDensity,
                                    cameraY |-> cameraY, canvasHeight |-> pm.canvasHeight,
                                    frontier |-> pm.highestPlatformY, from |-> pm.nextId]]
    IN IF Len(visiblePlatforms) < pm.density * pm.platformDensity
       THEN pushPlatform(pushPlatform(pm1, fillPlatform, "filler"), fillPlatform, "filler")
       ELSE pm1

\* PlatformManager.update(deltaTime, cameraY)
PlatformManagerUpdate(pm, deltaTime, cameraY, rnd) ==
    LET updated == [i \in 1..Len(pm.platforms) |->
                       PlatformUpdate(pm.platforms[i], deltaTime, pm.canvasWidth)]
        Keep(p) == p.active /\ ~(p.y > cameraY + pm.canvasHeight + 300)
        pm1 == [pm EXCEPT !.platforms = SelectSeq(updated, Keep)]
    IN fillDensity(generateAhead(pm1, cameraY, rnd), cameraY, rnd)

(***************************************************************************)
(* Player (not part of the sources at hand; modelled from what the Game    *)
(* and the PlatformManager use of it, and from the specification)          *)
(***************************************************************************)
\* x, y, velocityX and velocityY are JavaScript numbers: player.kind tells of
\* each whether it is finite (the field holds it), NaN or Infinity
Finite == "finite"
AllFinite == [x |-> Finite, y |-> Finite, velocityX |-> Finite, velocityY |-> Finite]

\* a < b and a > b for a number a of that kind and a finite b
LessThan(kind, a, b) == kind = Finite /\ a < b
GreaterThan(kind, a, b) == IF kind = Finite THEN a > b ELSE kind = "Infinity"

\* new Player(x, y, width, height)
Player(x, y, width, height) ==
    [x |-> x, y |-> y, width |-> width, height |-> height,
     velocityX |-> 0, velocityY |-> 0, isAlive |-> TRUE,
     gravity |-> 50, jumpForce |-> -15, kind |-> AllFinite]

\* Player.update(deltaTime, game): the integration of the velocity and the
\* user's input are an input of the frame, inp.vy: the vertical velocity
\* after this update.  It leaves isAlive alone.  inp.glitch tells which of
\* the values the update leaves NaN or infinite; a velocity that is not
\* finite stays so and takes the position with it.
PlayerUpdate(player, deltaTime, inp) ==
    LET Kind(f) == IF inp.glitch[f] # Finite THEN inp.glitch[f] ELSE player.kind[f]
        velocityX == Kind("velocityX")
        velocityY == Kind("velocityY")
    IN [player EXCEPT !.velocityY = inp.vy, !.y = player.y + inp.vy,
                      !.kind = [velocityX |-> velocityX, velocityY |-> velocityY,
                                x |-> IF velocityX # Finite THEN velocityX ELSE Kind("x"),
                                y |-> IF velocityY # Finite THEN velocityY ELSE Kind("y")]]

\* Player.onPlatformCollision(platform): a landing gives the jump impulse
\* (a larger one on a bouncy platform) and starts a breakable platform
\* breaking, a disappearing one vanishing; a platform already breaking or
\* vanishing gives no second impulse.
onPlatformCollision(player, platform) ==
    IF \/ platform.type = "breakable" /\ platform.breakProgress > 0
       \/ platform.type = "disappearing" /\ platform.disappearTimer > 0
    THEN [result |-> FALSE, player |-> player, platform |-> platform]
    ELSE [result |-> TRUE,
          player |-> [player EXCEPT !.velocityY =
                         IF platform.type = "bouncy" THEN (player.jumpForce * 3) \div 2
                         ELSE player.jumpForce,
                                    !.kind.velocityY = Finite],
          platform |-> startDisappearing(PlatformBreak(platform))]

RECURSIVE resolveAll(_, _, _, _)
\* a loop that goes on after a landing
resolveAll(platforms, hits, player, calls) ==
    IF hits = << >>
    THEN [platforms |-> platforms, player |-> player,
          collided |-> \E k \in 1..Len(calls) : calls[k].result, calls |-> calls]
    ELSE LET i == Head(hits)
             r == onPlatformCollision(player, platforms[i])
         IN resolveAll([platforms EXCEPT ![i] = r.platform], Tail(hits), r.player,
                       Append(calls, [id |-> platforms[i].id,
                                      active |-> platforms[i].active,
                                      result |-> r.result]))

RECURSIVE resolveCollisions(_, _, _, _)
\* the calls of player.onPlatformCollision in the loop of checkCollisions:
\* hits are the positions of the platforms the loop does not skip, in list
\* order; calls lists the platforms the handler was invoked for
resolveCollisions(platforms, hits, player, calls) ==
    IF hits = << >>
    THEN [platforms |-> platforms, player |-> player, collided |-> FALSE, calls |-> calls]
    ELSE LET i == Head(hits)
             r == onPlatformCollision(player, platforms[i])
             called == Append(calls, [id |-> platforms[i].id,
                                      active |-> platforms[i].active,
                                      result |-> r.result])
         IN IF r.result
            THEN [platforms |-> [platforms EXCEPT ![i] = r.platform],
                  player |-> r.player, collided |-> TRUE, calls |-> called]
            ELSE resolveCollisions([platforms EXCEPT ![i] = r.platform],
                                   Tail(hits), r.player, called)

\* the platforms the loop of checkCollisions calls the handler for, unless
\* it stops before it reaches them
collisionCandidates(platforms, player) ==
    LET playerBottom == player.y + player.height
        Hit(i) ==
            LET platform == platforms[i]
                horizontalCollision == player.x < platform.x + platform.width
                                       /\ player.x + player.width > platform.x
                verticalCollision == playerBottom >= platform.y
                                     /\ player.y < platform.y + platform.height
            IN /\ platform.active
               /\ player.kind.x = Finite /\ player.kind.y = Finite
               /\ ~(Abs(platform.y - playerBottom) > 20)
               /\ horizontalCollision /\ verticalCollision
    IN SelectSeq([i \in 1..Len(platforms) |-> i], Hit)

\* PlatformManager.checkCollisions(player)
checkCollisions(pm, player) ==
    IF player.kind.velocityY = Finite /\ player.velocityY <= 0
    THEN [platforms |-> pm.platforms, player |-> player, collided |-> FALSE, calls |-> << >>]
    ELSE resolveCollisions(pm.platforms, collisionCandidates(pm.platforms, player),
                           player, << >>)

(***************************************************************************)
(* Persisted client state (localStorage, sessionStorage) and the           *)
(* leaderboard page.  A stored string is kept as it is, a stored number as *)
(* its decimal digits.  World fields: storage; server, the users GET       *)
(* /users answers with when it succeeds; leaderboard, the page with        *)
(* window.allUsers, the rows shown and the requests in flight.             *)
(***************************************************************************)
\* what getItem gives for a key that is not stored (falsy, as "" is)
NoItem == ""
NoDigits == << >>

RECURSIVE String(_)
\* setItem(key, n) stores String(n): the decimal digits of an integer n >= 0
String(n) == IF n < 10 THEN <<n>> ELSE Append(String(n \div 10), n % 10)

RECURSIVE parseInt(_)
\* parseInt(s) || 0 for a string of decimal digits; the missing item gives 0
parseInt(s) ==
    IF s = NoDigits THEN 0
    ELSE parseInt(SubSeq(s, 1, Len(s) - 1)) * 10 + s[Len(s)]

EmptyStore == [token |-> NoItem, userId |-> NoItem, username |-> NoItem,
               highScore |-> NoDigits]

\* localStorage and sessionStorage of a browser that has not seen the site;
\* loginRedirect is the localStorage item of that name
EmptyStorage == [local |-> EmptyStore, session |-> EmptyStore, loginRedirect |-> NoItem]

\* the login form's handler after a successful POST /login, up to the redirect
loginOn(storage, data, rememberMe) ==
    LET store == [token |-> data.token, userId |-> data.userId,
                  username |-> data.username, highScore |-> String(data.highScore)]
    IN [storage EXCEPT ![IF rememberMe THEN "local" ELSE "session"] = store,
                       !.loginRedirect = "true"]

\* a login in a browser that has not seen the site
login(data, rememberMe) == loginOn(EmptyStorage, data, rememberMe)

\* localStorage.getItem(key) || sessionStorage.getItem(key)
getStored(storage, key, none) ==
    IF storage.local[key] # none THEN storage.local[key] ELSE storage.session[key]

\* the sampleUsers of loadSampleUserData
SampleUsers ==
    << [userId |-> "PCwtU7YgdQbw13r24rNHj0ix5Xx1", username |-> "Delo", highScore |-> 297],
       [userId |-> "jA8IwqYgdQbw13r24rNHj0ix5Xx2", username |-> "PepeHop", highScore |-> 512],
       [userId |-> "K9PrT7YgdQbw13r24rNHj0ix5Xx3", username |-> "BunnyMaster", highScore |-> 756],
       [userId |-> "M5QtW2YgdQbw13r24rNHj0ix5Xx4", username |-> "HopKing", highScore |-> 421],
       [userId |-> "N7RsX4YgdQbw13r24rNHj0ix5Xx5", username |-> "JumpQueen", highScore |-> 689] >>

RECURSIVE sortByHighScore(_)
\* users.sort((a, b) => b.highScore - a.highScore): descending and stable
sortByHighScore(users) ==
    IF users = << >> THEN << >>
    ELSE LET user == users[Len(users)]
             sorted == sortByHighScore(SubSeq(users, 1, Len(users) - 1))
             k == Cardinality({i \in 1..Len(sorted) : sorted[i].highScore >= user.highScore})
         IN SubSeq(sorted, 1, k) \o <<user>> \o SubSeq(sorted, k + 1, Len(sorted))

\* displayLeaderboardData(users)
displayLeaderboardData(w, users) == [w EXCEPT !.leaderboard.shown = users]

\* loadSampleUserData(); trace.sample tells that the handler has fallen back
\* to the sample data
loadSampleUserData(w) ==
    [displayLeaderboardData(w, sortByHighScore(SampleUsers))
        EXCEPT !.leaderboard.allUsers = [defined |-> TRUE,
                                         users |-> sortByHighScore(SampleUsers)],
               !.trace.sample = TRUE]

\* loadLeaderboardData() up to "await fetch": the loading row is shown and
\* the request is in flight; then tells who waits for the result, and
\* leaderboard.requests counts the requests the page has made
loadLeaderboardData(w, then) ==
    [w EXCEPT !.leaderboard.shown = << >>,
              !.leaderboard.fetches = Append(w.leaderboard.fetches, then),
              !.leaderboard.requests = w.leaderboard.requests + 1]

\* loadLeaderboardData() from the answer of the request on: the world and
\* the value the function returns; leaderboard.succeeded counts the requests
\* of the page that the server has answered
loadLeaderboardDataDone(w, ok) ==
    IF ok
    THEN LET sortedUsers == sortByHighScore(w.server)
         IN [world |-> [displayLeaderboardData(w, SubSeq(sortedUsers, 1,
                                                         Min(10, Len(sortedUsers))))
                           EXCEPT !.leaderboard.allUsers = [defined |-> TRUE,
                                                            users |-> sortedUsers],
                                  !.leaderboard.succeeded = w.leaderboard.succeeded + 1],
             users |-> sortedUsers]
    ELSE [world |-> loadSampleUserData(w), users |-> << >>]

\* loadPlayerStats() from "Find current user in the list" on; trace.stats
\* tells which list it has found the user in, trace.writes who has written
\* the stored highScore
storePlayerStats(w, allUsers) ==
    LET found == SelectSeq(allUsers,
                           LAMBDA user : user.userId = getStored(w.storage, "userId", NoItem))
        store == IF w.storage.local.token # NoItem THEN "local" ELSE "session"
    IN IF found = << >> THEN w
       ELSE IF getStored(w.storage, "token", NoItem) = NoItem THEN w
       ELSE [w EXCEPT !.storage[store].username = found[1].username,
                      !.storage[store].highScore = String(found[1].highScore),
                      !.trace.stats = IF allUsers = sortByHighScore(SampleUsers)
                                      THEN "sample" ELSE "api",
                      !.trace.writes = Append(w.trace.writes, "loadPlayerStats")]

\* loadPlayerStats() up to its first await
loadPlayerStats(w) ==
    IF getStored(w.storage, "userId", NoItem) = NoItem THEN w
    ELSE IF ~w.leaderboard.allUsers.defined THEN loadLeaderboardData(w, "stats")
    ELSE storePlayerStats(w, w.leaderboard.allUsers.users)

\* a page that has not been loaded
NoPage == [open |-> FALSE, shown |-> << >>, fetches |-> << >>,
           allUsers |-> [defined |-> FALSE, users |-> << >>],
           requests |-> 0, succeeded |-> 0]

\* the leaderboard page is loaded: initLeaderboard()
initLeaderboard(w) ==
    loadPlayerStats(loadLeaderboardData([w EXCEPT !.leaderboard = [NoPage EXCEPT !.open = TRUE]],
                                        "load"))

\* refreshLeaderboard() up to the request
refreshLeaderboard(w) == loadLeaderboardData(w, "refresh")

\* the request w.leaderboard.fetches[i] is answered (ok) or fails: the rest
\* of loadLeaderboardData, and of the function that waits for it
fetchDone(w, i, ok) ==
    LET then == w.leaderboard.fetches[i]
        rest == SubSeq(w.leaderboard.fetches, 1, i - 1)
                   \o SubSeq(w.leaderboard.fetches, i + 1, Len(w.leaderboard.fetches))
        done == loadLeaderboardDataDone([w EXCEPT !.leaderboard.fetches = rest], ok)
    IN IF then = "stats" THEN storePlayerStats(done.world, done.users)
       ELSE IF then = "refresh" THEN loadPlayerStats(done.world)
       ELSE done.world

(***************************************************************************)
(* The auth page and the game page.  World field nav: the page shown, the  *)
(* page window.location.href has been set to and that is not loaded yet,   *)
(* the number of page loads since the user last acted, and what the last   *)
(* checkExistingAuth call found and returned.                              *)
(***************************************************************************)
NoCheck == [done |-> FALSE, token |-> FALSE, result |-> FALSE]
\* the game page, loaded for a user who is logged in
GamePage == [page |-> "index.html", href |-> NoItem, loads |-> 0, checked |-> NoCheck]

\* a token is stored in localStorage or in sessionStorage
tokenStored(storage) == storage.local.token # NoItem \/ storage.session.token # NoItem

\* a checkExistingAuth that leaves the loginRedirect item in place
checkExistingAuthKeepFlag(w) ==
    LET isRedirecting == w.storage.loginRedirect
        result == IF isRedirecting # NoItem THEN TRUE ELSE tokenStored(w.storage)
    IN [w EXCEPT !.nav.checked = [done |-> TRUE, token |-> tokenStored(w.storage),
                                  result |-> result]]

\* checkExistingAuth() of the auth page; nav.checked keeps what it returned
\* and whether a token was stored
checkExistingAuth(w) ==
    LET isRedirecting == w.storage.loginRedirect
        result == IF isRedirecting # NoItem THEN TRUE ELSE tokenStored(w.storage)
    IN [w EXCEPT !.storage.loginRedirect = NoItem,
                 !.nav.checked = [done |-> TRUE, token |-> tokenStored(w.storage),
                                  result |-> result]]

\* the DOMContentLoaded listener of the auth page
authLoaded(w) ==
    LET w1 == checkExistingAuth([w EXCEPT !.nav.page = "auth.html", !.nav.href = NoItem])
    IN IF w1.nav.checked.result THEN [w1 EXCEPT !.nav.href = "index.html"] ELSE w1

\* checkAuthentication() of the game page
checkAuthentication(w) ==
    IF ~tokenStored(w.storage) THEN [w EXCEPT !.nav.href = "auth.html"] ELSE w

\* the DOMContentLoaded listener of the game page
indexLoaded(w) == checkAuthentication([w EXCEPT !.nav.page = "index.html", !.nav.href = NoItem])

\* the click listener of the logout button
logout(w) ==
    [w EXCEPT !.storage.local = EmptyStore, !.storage.session = EmptyStore,
              !.nav.href = "auth.html"]

\* the click listener of the login button, with the answer of POST /login
loginClick(w, data, rememberMe, ok) ==
    IF ok THEN [w EXCEPT !.storage = loginOn(w.storage, data, rememberMe),
                         !.nav.href = "index.html"]
    ELSE w

(***************************************************************************)
(* Game.  The operators below take and return the world w: the canvas, the *)
(* Game's fields, its camera, player and managers, the browser's queue of  *)
(* animation-frame callbacks (raf), and trace, the history of the run.     *)
(***************************************************************************)
\* trace.order lists the steps of the frame loop that a handler has run
step(w, name) == [w EXCEPT !.trace.order = Append(w.trace.order, name)]

\* requestAnimationFrame(time => this.gameLoop(time)), its id kept in animationFrameId
requestAnimationFrame(w) ==
    [w EXCEPT !.raf.queue = Append(w.raf.queue, w.raf.nextId),
              !.raf.nextId = w.raf.nextId + 1,
              !.game.animationFrameId = w.raf.nextId]

\* cancelAnimationFrame(id): the callback, if still pending, will not run
cancelAnimationFrame(w, id) ==
    LET Other(i) == i # id
    IN [w EXCEPT !.raf.queue = SelectSeq(w.raf.queue, Other),
                 !.raf.running = SelectSeq(w.raf.running, Other)]

\* Game.initEntities(); trace.fell tells whether updateCamera has found this
\* player below the screen
initEntities(w, rnd) ==
    LET player == Player(w.canvas.width \div 2 - 30, w.canvas.height - 150,
                         PlayerWidth, PlayerHeight)
        platformManager == PlatformManager(w.canvas.width, w.canvas.height,
                                           InitialPlatformCount, rnd)
        startingPlatform == Platform(w.canvas.width \div 2 - 40, w.canvas.height - 40, 80,
                                     platformManager.platformHeight, "normal", rnd)
    IN [w EXCEPT !.player = player,
                 !.platformManager = pushPlatform(platformManager, startingPlatform, "game"),
                 !.enemyManager = [spawnChance |-> 20, maxSpeed |-> 20],
                 !.trace.fell = FALSE]

\* a difficulty increase that forgets the cap of the gravity
increaseDifficultyUncapped(w) ==
    LET difficulty == w.game.difficulty + 1
    IN [w EXCEPT !.game.difficulty = difficulty,
                 !.game.lastDifficultyIncrease = w.game.score,
                 !.player.gravity = 50 + (difficulty - 1) * 5,
                 !.player.jumpForce = Max(-15 - (difficulty - 1), -20),
                 !.platformManager.density = Max(10 - Min(difficulty - 1, 5), 5),
                 !.platformManager.minWidth = Max(60 - Min((difficulty - 1) * 10, 40), 20),
                 !.platformManager.maxWidth = Max(120 - Min((difficulty - 1) * 10, 40), 60),
                 !.platformManager.platformHeight = Max(20 - Min((difficulty - 1) * 2, 10), 10),
                 !.enemyManager.spawnChance = Min(20 + (difficulty - 1) * 5, 50),
                 !.enemyManager.maxSpeed = Min(20 + (difficulty - 1) * 5, 50),
                 !.camera.smoothing = Min(10 + (difficulty - 1) * 2, 20)]

\* Game.increaseDifficulty(): gravity and camera.smoothing in hundredths,
\* spawnChance in hundredths, maxSpeed in tenths
increaseDifficulty(w) ==
    LET difficulty == w.game.difficulty + 1
        platformReduction == Min(difficulty - 1, 5)
        widthReduction == Min((difficulty - 1) * 10, 40)
        heightReduction == Min((difficulty - 1) * 2, 10)
    IN [w EXCEPT !.game.difficulty = difficulty,
                 !.game.lastDifficultyIncrease = w.game.score,
                 !.player.gravity = Min(50 + (difficulty - 1) * 5, 80),
                 !.player.jumpForce = Max(-15 - (difficulty - 1), -20),
                 !.platformManager.density = Max(10 - platformReduction, 5),
                 !.platformManager.minWidth = Max(60 - widthReduction, 20),
                 !.platformManager.maxWidth = Max(120 - widthReduction, 60),
                 !.platformManager.platformHeight = Max(20 - heightReduction, 10),
                 !.enemyManager.spawnChance = Min(20 + (difficulty - 1) * 5, 50),
                 !.enemyManager.maxSpeed = Min(20 + (difficulty - 1) * 5, 50),
                 !.camera.smoothing = Min(10 + (difficulty - 1) * 2, 20)]

\* the entry of trace.increases for an increaseDifficulty call that ended in
\* the world w: the parameters it has set
difficultyCall(w) ==
    [w EXCEPT !.trace.increases =
        Append(w.trace.increases,
               [gravity |-> w.player.gravity, jumpForce |-> w.player.jumpForce,
                minWidth |-> w.platformManager.minWidth,
                maxWidth |-> w.platformManager.maxWidth,
                platformHeight |-> w.platformManager.platformHeight,
                density |-> w.platformManager.density,
                spawnChance |-> w.enemyManager.spawnChance,
                maxSpeed |-> w.enemyManager.maxSpeed,
                smoothing |-> w.camera.smoothing])]

\* the entry of trace.scoreCalls for a call updateScore(newScore) that began
\* in the world w and ended in the world w1
scoreCall(w, newScore, w1) ==
    [w1 EXCEPT !.trace.scoreCalls =
        Append(w.trace.scoreCalls,
               [newScore |-> newScore, before |-> w.game.score,
                after |-> w1.game.score, difficulty |-> w1.game.difficulty])]

\* an updateScore that takes every new score, a lower one too
updateScoreAlways(w, newScore) ==
    scoreCall(w, newScore, [w EXCEPT !.game.score = newScore])

\* Game.updateScore(newScore); trace.scoreCalls lists the handler's calls,
\* trace.increases the increaseDifficulty calls of the run
updateScore(w, newScore) ==
    IF newScore > w.game.score
    THEN scoreCall(w, newScore,
                   [(IF newScore \div ThousandStep > w.game.score \div ThousandStep
                     THEN difficultyCall(increaseDifficulty(w)) ELSE w)
                       EXCEPT !.game.score = newScore])
    ELSE scoreCall(w, newScore, w)

\* Game.drawGameOverScreen(): trace.screens lists the game-over screens the
\* handler has drawn, each with the score shown and whether it was drawn in
\* gold ("if (this.score > this.highScore)")
drawGameOverScreen(w) ==
    [w EXCEPT !.trace.screens = Append(w.trace.screens,
                                       [score |-> w.game.score,
                                        gold |-> w.game.score > w.game.highScore])]

\* Game.render()
render(w) ==
    IF w.game.isGameOver THEN drawGameOverScreen(step(w, "render")) ELSE step(w, "render")

\* Game.stop()
stop(w) ==
    cancelAnimationFrame([w EXCEPT !.game.isRunning = FALSE], w.game.animationFrameId)

\* Game.gameOver(): the canvas gets one more click/touch listener that
\* restarts; trace.held is the high score the game held when the run ended
gameOver(w) ==
    LET w1 == stop([w EXCEPT !.game.isGameOver = TRUE,
                             !.trace.held = w.game.highScore])
        w2 == IF w1.game.score > w1.game.highScore
              THEN [w1 EXCEPT !.game.highScore = w1.game.score,
                              !.storage.local.highScore = String(w1.game.score),
                              !.trace.writes = Append(w1.trace.writes, "gameOver")]
              ELSE w1
    IN render([w2 EXCEPT !.game.canvasListeners = w2.game.canvasListeners + 1])

\* a recovery that brings the player back to life
recoverPlayerAlways(w) ==
    [w EXCEPT !.player.isAlive = TRUE]

\* Game.recoverPlayerIfNeeded()
recoverPlayerIfNeeded(w) ==
    LET w1 == IF \/ LessThan(w.player.kind.x, w.player.x, -(w.player.width * 2))
                 \/ GreaterThan(w.player.kind.x, w.player.x,
                                w.canvas.width + w.player.width * 2)
              THEN [w EXCEPT !.player.x = w.canvas.width \div 2 - w.player.width \div 2,
                             !.player.kind.x = Finite]
              ELSE w
        screenY == w1.player.y - w1.camera.y
        isNaN == \E f \in DOMAIN w1.player.kind : w1.player.kind[f] = "NaN"
    IN IF \/ LessThan(w1.player.kind.y, screenY, -w1.canvas.height)
          \/ GreaterThan(w1.player.kind.y, screenY, w1.canvas.height * 2)
       THEN [w1 EXCEPT !.player.isAlive = FALSE]
       ELSE IF isNaN
       THEN [w1 EXCEPT !.player.x = w1.canvas.width \div 2 - w1.player.width \div 2,
                       !.player.y = w1.camera.y + (w1.canvas.height * 7) \div 10,
                       !.player.velocityX = 0,
                       !.player.velocityY = (w1.player.jumpForce * 5) \div 10,
                       !.player.kind = AllFinite]
       ELSE w1

\* Game.forcePlayerVisibility()
forcePlayerVisibility(w, rnd) ==
    LET screenY == w.player.y - w.camera.y
        y == w.camera.y + (w.canvas.height * 7) \div 10
        platform == Platform(w.canvas.width \div 2 - 75, y + w.player.height + 20, 150,
                             w.platformManager.platformHeight, "normal", rnd)
    IN IF \/ LessThan(w.player.kind.y, screenY, 50)
          \/ GreaterThan(w.player.kind.y, screenY, w.canvas.height - 50)
       THEN [w EXCEPT !.player.y = y,
                      !.player.velocityY = (w.player.jumpForce * 5) \div 10,
                      !.player.kind.y = Finite, !.player.kind.velocityY = Finite,
                      !.platformManager = pushPlatform(w.platformManager, platform, "game")]
       ELSE w

\* an updateCamera that eases the camera alike whether the player rises or falls
updateCameraEven(w) ==
    LET screenY == w.player.y - w.camera.y
        kind == w.player.kind.y
        target1 == IF LessThan(kind, screenY * 100, w.canvas.height * 67)
                   THEN w.player.y - w.canvas.height \div 2
                   ELSE w.camera.targetY
        target2 == IF GreaterThan(kind, screenY * 10, w.canvas.height * 8)
                      /\ target1 > w.camera.y
                   THEN w.camera.y
                   ELSE target1
        falling == GreaterThan(w.player.kind.velocityY, w.player.velocityY, 0)
        fell == GreaterThan(kind, screenY, w.canvas.height + 50)
    IN [w EXCEPT !.camera.targetY = target2,
                 !.camera.y = ease(w.camera.y, target2, 10),
                 !.player.isAlive = IF fell THEN FALSE ELSE w.player.isAlive,
                 !.trace.fell = w.trace.fell \/ fell,
                 !.trace.easingFalling = IF falling THEN 10 ELSE w.trace.easingFalling,
                 !.trace.easingRising = IF falling THEN w.trace.easingRising ELSE 10,
                 !.trace.order = Append(w.trace.order, "camera")]

\* Game.updateCamera(deltaTime); trace.easingFalling and trace.easingRising
\* are the easing (in hundredths) last applied when velocityY > 0 and when
\* not, 0 as long as none has been
updateCamera(w) ==
    LET screenY == w.player.y - w.camera.y
        kind == w.player.kind.y
        target1 == IF LessThan(kind, screenY * 100, w.canvas.height * 67)
                   THEN w.player.y - w.canvas.height \div 2
                   ELSE w.camera.targetY
        target2 == IF GreaterThan(kind, screenY * 10, w.canvas.height * 8)
                      /\ target1 > w.camera.y
                   THEN w.camera.y
                   ELSE target1
        falling == GreaterThan(w.player.kind.velocityY, w.player.velocityY, 0)
        easing == IF falling THEN 5 ELSE 10
        fell == GreaterThan(kind, screenY, w.canvas.height + 50)
    IN [w EXCEPT !.camera.targetY = target2,
                 !.camera.y = ease(w.camera.y, target2, easing),
                 !.player.isAlive = IF fell THEN FALSE ELSE w.player.isAlive,
                 !.trace.fell = w.trace.fell \/ fell,
                 !.trace.easingFalling = IF falling THEN easing ELSE w.trace.easingFalling,
                 !.trace.easingRising = IF falling THEN w.trace.easingRising ELSE easing,
                 !.trace.order = Append(w.trace.order, "camera")]

\* Game.checkCollisions(): inp.enemyHit is the result of the enemy manager's check
GameCheckCollisions(w, inp) ==
    LET c == checkCollisions(w.platformManager, w.player)
    IN [w EXCEPT !.platformManager.platforms = c.platforms,
                 !.player = [c.player EXCEPT !.isAlive =
                                IF inp.enemyHit THEN FALSE ELSE c.player.isAlive],
                 !.trace.calls = w.trace.calls \o c.calls,
                 !.trace.order = w.trace.order \o <<"platformCollisions", "enemyCollisions",
                                                   "powerUpCollisions">>,
                 !.trace.checks = Append(w.trace.checks,
                                         [velocityY |-> w.player.velocityY,
                                          calls |-> c.calls, collided |-> c.collided])]

\* the "CRITICAL FIX" at the head of Game.update
criticalFix(w, rnd) ==
    LET screenY == w.player.y - w.camera.y
        y == w.camera.y + w.canvas.height \div 2
        safePlatform == Platform(w.canvas.width \div 2 - 75, y + w.player.height + 20, 150,
                                 w.platformManager.platformHeight, "normal", rnd)
    IN IF w.game.score >= 300 /\ w.game.score <= 310
          /\ (\/ LessThan(w.player.kind.y, screenY, 0)
              \/ GreaterThan(w.player.kind.y, screenY, w.canvas.height)
              \/ w.player.kind.y = "NaN")
       THEN [w EXCEPT !.player.y = y,
                      !.player.velocityY = -5,
                      !.player.kind.y = Finite, !.player.kind.velocityY = Finite,
                      !.platformManager = pushPlatform(w.platformManager, safePlatform, "game")]
       ELSE w

\* Game.update, "this.player.update(deltaTime, this)"
updatePlayer(w, deltaTime, inp) ==
    [w EXCEPT !.player = PlayerUpdate(w.player, deltaTime, inp),
              !.trace.order = Append(w.trace.order, "player")]

\* Game.update, "this.platformManager.update(deltaTime, this.camera.y)";
\* trace.platformUpdates lists the deltaTime of every such call of the handler
updatePlatforms(w, deltaTime, rnd) ==
    [w EXCEPT !.platformManager =
                 PlatformManagerUpdate(w.platformManager, deltaTime, w.camera.y, rnd),
              !.trace.platformUpdates = Append(w.trace.platformUpdates, deltaTime),
              !.trace.order = Append(w.trace.order, "platforms")]

\* Game.update, "this.enemyManager.update(...)": the enemies are not part of
\* the world (their collisions with the player are an input)
enemyManagerUpdate(w) == step(w, "enemies")

\* Game.update, "this.powerUpManager.update(...)"
powerUpManagerUpdate(w) == step(w, "powerUps")

\* Game.updateBackground(deltaTime): clouds and stars, not part of the world
updateBackground(w) == step(w, "background")

\* Game.update, "this.updateScore(Math.floor(currentHeight / 10))"; trace.peak
\* records the greatest height the camera has had above its offset at the
\* start of the run (trace.base) when the score was computed
scoreFromHeight(w) ==
    updateScore([w EXCEPT !.trace.peak = Max(w.trace.peak, w.trace.base - w.camera.y),
                          !.trace.order = Append(w.trace.order, "score")],
                Abs(w.camera.y) \div 10)

\* Game.update, "if (this.score === 300) this.forcePlayerVisibility()"
ensureVisibleAt300(w, rnd) ==
    IF w.game.score = 300 THEN forcePlayerVisibility(w, rnd) ELSE w

\* Game.update from the check "if (!this.player.isAlive)" on
updateAfterPlayer(w, deltaTime, inp, rnd) ==
    IF ~w.player.isAlive THEN gameOver(w)
    ELSE ensureVisibleAt300(
             scoreFromHeight(
                 updateBackground(
                     GameCheckCollisions(
                         powerUpManagerUpdate(
                             enemyManagerUpdate(
                                 updatePlatforms(updateCamera(w), deltaTime, rnd))),
                         inp))), rnd)

\* the entry of trace.recoveries for an update that began in the world w and
\* has come to the world w1 when recoverPlayerIfNeeded returns
recovery(w, w1) ==
    [w1 EXCEPT !.trace.recoveries =
        Append(w.trace.recoveries,
               [before |-> w.player, after |-> w1.player, cameraY |-> w1.camera.y])]

\* Game.update up to "this.player.update(deltaTime, this)"
recoverPlayer(w, rnd) == recovery(w, recoverPlayerIfNeeded(criticalFix(w, rnd)))

\* Game.update(deltaTime); trace.updates lists the deltaTime of every call
\* that got past the isGameOver check, trace.recoveries the player before
\* and after the recovery at its head
GameUpdate(w, deltaTime, inp, rnd) ==
    IF w.game.isGameOver THEN w
    ELSE updateAfterPlayer(
             updatePlayer(
                 recoverPlayer([w EXCEPT !.trace.updates =
                                   Append(w.trace.updates, deltaTime)], rnd),
                 deltaTime, inp),
             deltaTime, inp, rnd)

\* Game.gameLoop(currentTime)
gameLoop(w, currentTime, inp, rnd) ==
    IF ~w.game.isRunning THEN w
    ELSE requestAnimationFrame(
             render(GameUpdate([w EXCEPT !.game.lastTime = currentTime],
                               Min(currentTime - w.game.lastTime, MaxDeltaTime), inp, rnd)))

\* Game.start(): gameLoop() is called with no argument, so currentTime = 0
start(w, now, inp, rnd) ==
    IF w.game.isRunning THEN w
    ELSE gameLoop([w EXCEPT !.game.isRunning = TRUE,
                            !.game.isGameOver = FALSE,
                            !.game.lastTime = now,
                            !.trace.base = w.camera.y], 0, inp, rnd)

\* Game.restart() up to "this.initEntities()"
resetGame(w, rnd) ==
    initEntities([updateScore([w EXCEPT !.game.score = 0], 0)
                     EXCEPT !.camera.y = 0, !.camera.targetY = 0,
                            !.game.isGameOver = FALSE,
                            !.game.difficulty = 1,
                            !.game.lastDifficultyIncrease = 0], rnd)

\* Game.restart(); a new run begins: trace.run counts the runs
restart(w, now, inp, rnd) ==
    gameLoop([resetGame(w, rnd) EXCEPT !.game.isRunning = TRUE, !.game.lastTime = now,
                                       !.trace.run = w.trace.run + 1,
                                       !.trace.base = 0, !.trace.peak = 0,
                                       !.trace.increases = << >>],
             0, inp, rnd)

\* Game.pauseGame()
pauseGame(w) == [w EXCEPT !.game.isRunning = FALSE]

\* Game.resumeGame()
resumeGame(w, now, inp, rnd) ==
    gameLoop([w EXCEPT !.game.isRunning = TRUE, !.game.lastTime = now], 0, inp, rnd)

\* the pause button's click listener (setupControlButtons)
pauseButtonClick(w, now, inp, rnd) ==
    IF w.game.isRunning /\ ~w.game.isGameOver THEN pauseGame(w)
    ELSE IF ~w.game.isGameOver THEN resumeGame(w, now, inp, rnd)
    ELSE w

\* Game.adjustEntitiesForResize(isPortrait, isMobile)
adjustEntitiesForResize(w, isPortrait, isMobile) ==
    LET w1 == [w EXCEPT !.platformManager.canvasWidth = w.canvas.width,
                        !.platformManager.canvasHeight = w.canvas.height,
                        !.player.x = Min(w.canvas.width - w.player.width,
                                         Max(0, w.canvas.width \div 2 - w.player.width \div 2)),
                        !.player.kind.x = Finite]
        screenY == w1.player.y - w1.camera.y
        w2 == IF \/ LessThan(w1.player.kind.y, screenY, 0)
                 \/ GreaterThan(w1.player.kind.y, screenY, w1.canvas.height)
              THEN [w1 EXCEPT !.player.y = w1.camera.y + (w1.canvas.height * 7) \div 10,
                              !.player.kind.y = Finite]
              ELSE w1
    IN IF isMobile /\ isPortrait
       THEN LET y == w2.camera.y - w2.canvas.height \div 10
            IN [w2 EXCEPT !.camera.y = y, !.camera.targetY = y]
       ELSE w2

\* Game.resizeCanvas(), with the window's inner size
resizeCanvas(w, windowWidth, windowHeight) ==
    LET w1 == [w EXCEPT !.canvas = [width |-> windowWidth, height |-> windowHeight]]
        w2 == adjustEntitiesForResize(w1, windowHeight > windowWidth, windowWidth <= 430)
        y == w2.player.y - (w2.canvas.height * 7) \div 10
    IN [w2 EXCEPT !.camera.y = y, !.camera.targetY = y]

\* a click on the canvas inside the restart button's bounds: every listener
\* that gameOver() has added and that is still attached removes itself and
\* calls restart()
RECURSIVE canvasClick(_, _, _, _)
canvasClick(w, now, inp, rnd) ==
    IF w.game.canvasListeners = 0 THEN w
    ELSE canvasClick(restart([w EXCEPT !.game.canvasListeners = w.game.canvasListeners - 1],
                             now, inp, rnd),
                     now, inp, rnd)

RECURSIVE runCallbacks(_, _, _, _)
\* the browser runs the callbacks that were pending when the frame began
runCallbacks(w, currentTime, inp, rnd) ==
    IF w.raf.running = << >> THEN w
    ELSE runCallbacks(gameLoop([w EXCEPT !.raf.running = Tail(w.raf.running)],
                               currentTime, inp, rnd),
                      currentTime, inp, rnd)

\* new Game(canvas), up to the fields the model keeps; budget is the number
\* of handlers the run may execute
Game(windowWidth, windowHeight, highScore, rnd, budget) ==
    initEntities(
        [canvas |-> [width |-> windowWidth, height |-> windowHeight],
         game |-> [isRunning |-> FALSE, isGameOver |-> FALSE, score |-> 0,
                   highScore |-> highScore, difficulty |-> 1,
                   lastDifficultyIncrease |-> 0, lastTime |-> 0,
                   animationFrameId |-> 0, canvasListeners |-> 0],
         camera |-> [y |-> 0, targetY |-> 0, smoothing |-> 10],
         player |-> << >>, platformManager |-> << >>, enemyManager |-> << >>,
         raf |-> [queue |-> << >>, running |-> << >>, nextId |-> 1],
         storage |-> EmptyStorage,
         server |-> << >>, leaderboard |-> NoPage, nav |-> GamePage,
         trace |-> [op |-> "new", updates |-> << >>, platformUpdates |-> << >>,
                    calls |-> << >>, checks |-> << >>, scoreCalls |-> << >>,
                    increases |-> << >>,
                    sample |-> FALSE, stats |-> "none", writes |-> << >>,
                    recoveries |-> << >>, order |-> << >>,
                    base |-> 0, peak |-> 0, fell |-> FALSE,
                    easingFalling |-> 0, easingRising |-> 0,
                    screens |-> << >>, held |-> 0,
                    everStarted |-> FALSE, run |-> 0,
                    steps |-> 0, budget |-> budget]],
        rnd)

(***************************************************************************)
(* Bounds and inputs                                                       *)
(***************************************************************************)
MaxSteps == 5
TerrainSteps == 7
PlatformSteps == 5
TallSteps == 5
DifficultySteps == 8
StartClock == 1000
FrameMs == 16
CanvasWidth == 400
SmallCanvas == 400
LargeCanvas == 800
TerrainCanvas == 1500
LandingCanvas == 5570
TallCanvas == 30000
FallSpeed == 120
LandSpeed == 10
ScoreStep == 1000
StorageSteps == 6
ServerScore == 500
GlitchSteps == 4
DensitySteps == 5
AuthSteps == 5
MaxLoads == 6
ShortCanvas == 150

WindowHeights == {SmallCanvas, LargeCanvas}
TerrainHeights == {SmallCanvas, TerrainCanvas}
LandingHeights == {SmallCanvas, LandingCanvas}
TallHeights == {SmallCanvas, TallCanvas}
DensityHeights == {ShortCanvas, SmallCanvas, TerrainCanvas}

\* what Player.update and the enemy manager's collision check may produce:
\* the player rises, falls fast, falls fast into an enemy, or comes down slowly
Rising == [vy |-> -15, enemyHit |-> FALSE, glitch |-> AllFinite]
Falling == [vy |-> FallSpeed, enemyHit |-> FALSE, glitch |-> AllFinite]
FallingOnEnemy == [vy |-> FallSpeed, enemyHit |-> TRUE, glitch |-> AllFinite]
Landing == [vy |-> LandSpeed, enemyHit |-> FALSE, glitch |-> AllFinite]
\* Player.update leaves one of the player's numbers NaN or infinite
Glitch(f, kind) == [Rising EXCEPT !.glitch[f] = kind]
GlitchInputs ==
    {Rising} \cup {Glitch(f, kind) : f \in DOMAIN AllFinite, kind \in {"NaN", "Infinity"}}
PlayerInputs == {Rising, Falling, FallingOnEnemy}
LandingInputs == {Rising, Landing}

\* the random draws of one handler
PlainDraw == [u |-> 50, uw |-> 50, ux |-> 50, chance |-> 90, rand |-> 0, coin |-> 30]
PlainDraws == {PlainDraw}
\* special platforms: the hardest type of the band, middle gaps; bouncy or
\* moving ones, smallest gaps; breakable ones, largest gaps
HardDraw == [u |-> 50, uw |-> 50, ux |-> 50, chance |-> 30, rand |-> 95, coin |-> 30]
NarrowDraw == [u |-> 0, uw |-> 0, ux |-> 100, chance |-> 10, rand |-> 50, coin |-> 80]
WideDraw == [u |-> 100, uw |-> 100, ux |-> 0, chance |-> 60, rand |-> 20, coin |-> 60]
BreakableDraw == [u |-> 100, uw |-> 50, ux |-> 50, chance |-> 30, rand |-> 80, coin |-> 30]
TerrainDraws == {HardDraw, NarrowDraw, WideDraw}
LandingDraws == {BreakableDraw}

\* the users the server holds, the first of them the one who logs in, and
\* whether the login form's "remember me" is checked
OtherUser == [token |-> "t2", userId |-> "u2", username |-> "Hopper", highScore |-> 120]
UserOf(userId, highScore) ==
    [token |-> "t1", userId |-> userId, username |-> "Bunny", highScore |-> highScore]
\* what localStorage, sessionStorage and the loginRedirect item may hold when
\* a page is opened
StoredTokens ==
    {[local |-> l, session |-> se, loginRedirect |-> flag] :
        l \in {EmptyStore, login(OtherUser, TRUE).local},
        se \in {EmptyStore, login(UserOf("u1", 0), FALSE).session},
        flag \in {NoItem, "true"}}
RememberedLogin == [users |-> <<UserOf("u1", 0), OtherUser>>, rememberMe |-> TRUE]
Logins ==
    {[users |-> <<UserOf(userId, highScore), OtherUser>>, rememberMe |-> rememberMe] :
        userId \in {"u1", SampleUsers[1].userId}, highScore \in {0, ServerScore},
        rememberMe \in BOOLEAN}

(***************************************************************************)
(* State                                                                   *)
(***************************************************************************)
VARIABLES canvas, game, camera, player, platformManager, enemyManager, raf, trace, clock,
          storage, server, leaderboard, nav

vars == <<canvas, game, camera, player, platformManager, enemyManager, raf, trace, clock,
          storage, server, leaderboard, nav>>

World == [canvas |-> canvas, game |-> game, camera |-> camera, player |-> player,
          platformManager |-> platformManager, enemyManager |-> enemyManager,
          raf |-> raf, trace |-> trace,
          storage |-> storage, server |-> server, leaderboard |-> leaderboard,
          nav |-> nav]

\* the world a handler starts from: the per-handler history is cleared
Begin(op) == [World EXCEPT !.trace.op = op, !.trace.updates = << >>,
                           !.trace.platformUpdates = << >>,
                           !.trace.calls = << >>, !.trace.checks = << >>,
                           !.trace.scoreCalls = << >>, !.trace.recoveries = << >>,
                           !.trace.order = << >>, !.trace.screens = << >>,
                           !.trace.sample = FALSE, !.trace.stats = "none",
                           !.trace.writes = << >>,
                           !.trace.steps = trace.steps + 1]

Commit(w) ==
    LET w1 == [w EXCEPT !.trace.everStarted = w.trace.everStarted \/ w.game.isRunning]
    IN /\ canvas' = w1.canvas
       /\ game' = w1.game
       /\ camera' = w1.camera
       /\ player' = w1.player
       /\ platformManager' = w1.platformManager
       /\ enemyManager' = w1.enemyManager
       /\ raf' = w1.raf
       /\ trace' = w1.trace
       /\ storage' = w1.storage
       /\ server' = w1.server
       /\ leaderboard' = w1.leaderboard
       /\ nav' = w1.nav

\* the game page is loaded by a user who has logged in: the server holds the
\* users, storage what the login has stored, and the Game reads its
\* highScore from localStorage
InitFrom(Heights, Rnds, budget, Sessions) ==
    \E h \in Heights, rnd \in Rnds, session \in Sessions :
        LET st == login(session.users[1], session.rememberMe)
            w == [Game(CanvasWidth, h, parseInt(st.local.highScore), rnd, budget)
                     EXCEPT !.storage = st, !.server = session.users]
        IN /\ canvas = w.canvas
           /\ game = w.game
           /\ camera = w.camera
           /\ player = w.player
           /\ platformManager = w.platformManager
           /\ enemyManager = w.enemyManager
           /\ raf = w.raf
           /\ trace = w.trace
           /\ storage = w.storage
           /\ server = w.server
           /\ leaderboard = w.leaderboard
           /\ nav = w.nav
           /\ clock = StartClock

\* the browser opens the auth page or the game page over one of Storages
AuthInitFrom(Storages) ==
    \E st \in Storages, href \in {"auth.html", "index.html"} :
        LET w == [Game(CanvasWidth, SmallCanvas, 0, PlainDraw, AuthSteps)
                     EXCEPT !.storage = st, !.server = <<UserOf("u1", 0), OtherUser>>,
                            !.nav = [GamePage EXCEPT !.page = NoItem, !.href = href]]
        IN /\ canvas = w.canvas
           /\ game = w.game
           /\ camera = w.camera
           /\ player = w.player
           /\ platformManager = w.platformManager
           /\ enemyManager = w.enemyManager
           /\ raf = w.raf
           /\ trace = w.trace
           /\ storage = w.storage
           /\ server = w.server
           /\ leaderboard = w.leaderboard
           /\ nav = w.nav
           /\ clock = StartClock

InitWith(Heights, Rnds, budget) == InitFrom(Heights, Rnds, budget, {RememberedLogin})

(***************************************************************************)
(* Actions: one per handler                                                *)
(***************************************************************************)
\* the page calls game.start()
Start(Inps, Rnds) ==
    /\ trace.steps < trace.budget
    /\ ~game.isRunning
    /\ \E inp \in Inps, rnd \in Rnds : Commit(start(Begin("start"), clock, inp, rnd))
    /\ clock' = clock

\* a click on the pause button
PauseClick(Inps, Rnds) ==
    /\ trace.steps < trace.budget
    /\ ~game.isGameOver
    /\ \E inp \in Inps, rnd \in Rnds :
          Commit(pauseButtonClick(Begin(IF game.isRunning THEN "pause" ELSE "resume"),
                                  clock, inp, rnd))
    /\ clock' = clock

\* a click on the restart button of the page
RestartClick(Inps, Rnds) ==
    /\ trace.steps < trace.budget
    /\ \E inp \in Inps, rnd \in Rnds : Commit(restart(Begin("restart"), clock, inp, rnd))
    /\ clock' = clock

\* a click on the restart button drawn on the canvas
CanvasRestart(Inps, Rnds) ==
    /\ trace.steps < trace.budget
    /\ game.canvasListeners > 0
    /\ \E inp \in Inps, rnd \in Rnds : Commit(canvasClick(Begin("restart"), clock, inp, rnd))
    /\ clock' = clock

\* the window is resized (or becomes visible again)
Resize(Heights) ==
    /\ trace.steps < trace.budget
    /\ \E h \in Heights : Commit(resizeCanvas(Begin("resize"), CanvasWidth, h))
    /\ clock' = clock

\* an animation frame: the pending callbacks run with the frame's timestamp
Frame(Inps, Rnds) ==
    /\ trace.steps < trace.budget
    /\ raf.queue # << >>
    /\ clock' = clock + FrameMs
    /\ \E inp \in Inps, rnd \in Rnds :
          LET w == Begin("frame")
          IN Commit(runCallbacks([w EXCEPT !.raf.running = w.raf.queue,
                                           !.raf.queue = << >>],
                                 clock + FrameMs, inp, rnd))

\* the leaderboard page is opened
OpenLeaderboard ==
    /\ trace.steps < trace.budget
    /\ Commit(initLeaderboard(Begin("leaderboard")))
    /\ clock' = clock

\* a click on the leaderboard's refresh button
RefreshClick ==
    /\ trace.steps < trace.budget
    /\ leaderboard.open
    /\ Commit(refreshLeaderboard(Begin("refresh")))
    /\ clock' = clock

\* a request of the leaderboard page is answered, or fails
FetchDone ==
    /\ trace.steps < trace.budget
    /\ \E i \in 1..Len(leaderboard.fetches), ok \in BOOLEAN :
          Commit(fetchDone(Begin("fetch"), i, ok))
    /\ clock' = clock

\* an update of a running game finds the camera Gain * 10 px farther from the
\* origin than the score tells: its call of updateScore
ScoreGain(Gains) ==
    /\ trace.steps < trace.budget
    /\ game.isRunning /\ ~game.isGameOver
    /\ \E gain \in Gains : Commit(updateScore(Begin("score"), game.score + gain))
    /\ clock' = clock

\* the user opens the auth page or the game page
Visit ==
    /\ trace.steps < trace.budget
    /\ nav.href = NoItem
    /\ \E href \in {"auth.html", "index.html"} :
          Commit([Begin("visit") EXCEPT !.nav.href = href, !.nav.loads = 0])
    /\ clock' = clock

\* the page window.location.href names is loaded: its DOMContentLoaded
\* listener runs (MaxLoads bounds the loads that follow one act of the user)
LoadPage ==
    /\ nav.href # NoItem
    /\ nav.loads < MaxLoads
    /\ LET w == [Begin("load") EXCEPT !.trace.steps = trace.steps,
                                      !.nav.loads = nav.loads + 1]
       IN Commit(IF nav.href = "auth.html" THEN authLoaded(w) ELSE indexLoaded(w))
    /\ clock' = clock

\* a click on the login button of the auth page, and the answer of the server
LoginClick ==
    /\ trace.steps < trace.budget
    /\ nav.page = "auth.html" /\ nav.href = NoItem
    /\ \E i \in 1..Len(server), rememberMe \in BOOLEAN, ok \in BOOLEAN :
          Commit(loginClick([Begin("login") EXCEPT !.nav.loads = 0],
                            server[i], rememberMe, ok))
    /\ clock' = clock

\* a click on the logout button of the game page
LogoutClick ==
    /\ trace.steps < trace.budget
    /\ nav.page = "index.html" /\ nav.href = NoItem
    /\ Commit(logout([Begin("logout") EXCEPT !.nav.loads = 0]))
    /\ clock' = clock

(***************************************************************************)
(* Specifications.  Spec: the session, the score and the camera on two     *)
(* window sizes.  TerrainSpec: the platform generator as the window grows  *)
(* and shrinks.  PlatformSpec: landings on platforms.  TallSpec: a window  *)
(* far taller than the terrain built so far.  DifficultySpec: a run whose   *)
(* score passes one 1000-point boundary after the other.  StorageSpec: the *)
(* game and the leaderboard page of a logged-in user over the same storage.*)
(* GlitchSpec: runs in which Player.update leaves a number NaN or infinite.*)
(***************************************************************************)
Init == InitWith(WindowHeights, PlainDraws, MaxSteps)

Next ==
    \/ Start(PlayerInputs, PlainDraws)
    \/ PauseClick(PlayerInputs, PlainDraws)
    \/ RestartClick(PlayerInputs, PlainDraws)
    \/ CanvasRestart(PlayerInputs, PlainDraws)
    \/ Resize(WindowHeights)
    \/ Frame(PlayerInputs, PlainDraws)

Spec == Init /\ [][Next]_vars

TerrainInit == InitWith({SmallCanvas}, TerrainDraws, TerrainSteps)

TerrainNext ==
    \/ Start({Rising}, TerrainDraws)
    \/ Resize(TerrainHeights)
    \/ Frame({Rising}, TerrainDraws)

TerrainSpec == TerrainInit /\ [][TerrainNext]_vars

PlatformInit == InitWith({SmallCanvas}, LandingDraws, PlatformSteps)

PlatformNext ==
    \/ Start(LandingInputs, LandingDraws)
    \/ PauseClick(LandingInputs, LandingDraws)
    \/ Resize(LandingHeights)
    \/ Frame(LandingInputs, LandingDraws)

PlatformSpec == PlatformInit /\ [][PlatformNext]_vars

TallInit == InitWith({SmallCanvas}, PlainDraws, TallSteps)

TallNext ==
    \/ Start({Rising}, PlainDraws)
    \/ Resize(TallHeights)
    \/ Frame({Rising}, PlainDraws)
    \/ RestartClick({Rising}, PlainDraws)

TallSpec == TallInit /\ [][TallNext]_vars

StorageInit == InitFrom({SmallCanvas}, PlainDraws, StorageSteps, Logins)

StorageNext ==
    \/ Resize({LargeCanvas})
    \/ Start({FallingOnEnemy}, PlainDraws)
    \/ Frame({FallingOnEnemy}, PlainDraws)
    \/ OpenLeaderboard
    \/ RefreshClick
    \/ FetchDone

StorageSpec == StorageInit /\ [][StorageNext]_vars

GlitchInit == InitWith(WindowHeights, PlainDraws, GlitchSteps)

GlitchNext ==
    \/ Start(GlitchInputs, PlainDraws)
    \/ PauseClick(GlitchInputs, PlainDraws)
    \/ Frame(GlitchInputs, PlainDraws)

GlitchSpec == GlitchInit /\ [][GlitchNext]_vars

AuthInit == AuthInitFrom({EmptyStorage})

AuthNext ==
    \/ Visit
    \/ LoadPage
    \/ LoginClick
    \/ LogoutClick

AuthSpec == AuthInit /\ [][AuthNext]_vars

\* a page that window.location.href names is loaded
RedirectInit == AuthInitFrom(StoredTokens)

RedirectSpec == RedirectInit /\ [][AuthNext]_vars /\ WF_vars(LoadPage)

DensityInit == InitWith({SmallCanvas}, TerrainDraws, DensitySteps)

DensityNext ==
    \/ Start({Rising}, TerrainDraws)
    \/ Resize(DensityHeights)
    \/ Frame({Rising}, TerrainDraws)

DensitySpec == DensityInit /\ [][DensityNext]_vars

DifficultyInit == InitWith({SmallCanvas}, PlainDraws, DifficultySteps)

DifficultyNext ==
    \/ Start({Rising}, PlainDraws)
    \/ ScoreGain({ScoreStep})
    \/ Frame({Rising}, PlainDraws)
    \/ RestartClick({Rising}, PlainDraws)

DifficultySpec == DifficultyInit /\ [][DifficultyNext]_vars

(***************************************************************************)
(* Properties                                                              *)
(***************************************************************************)
\* the vertical distances between consecutive entries of the generator's history
Gaps == LET log == platformManager.genLog
        IN {log[i - 1].y - log[i].y : i \in 2..Len(log)}

\* C1: every platform that generatePlatform (or the fixed part of
\* generateInitialPlatforms) lays down lies below the one laid down before
\* it, by at least minGapY and at most maxGapY, and highestPlatformY is the
\* y of the last one: the frontier strictly decreases.
C1_GapsWithinBounds ==
    /\ \A gap \in Gaps : /\ gap >= platformManager.minGapY
                         /\ gap <= platformManager.maxGapY
                         /\ gap > 0
    /\ platformManager.highestPlatformY =
          platformManager.genLog[Len(platformManager.genLog)].y

\* C1's case: a frame has generated platforms beyond the initial ones, and
\* both the smallest and the largest gap have been drawn
C1_Witness ==
    /\ trace.op = "frame"
    /\ Len(platformManager.genLog) > InitialPlatformCount + 5
    /\ platformManager.minGapY \in Gaps
    /\ platformManager.maxGapY \in Gaps

\* C2: no two platforms that consecutive generatePlatform calls produce are
\* both disappearing, whatever the frames prune, fill in or insert in between.
C2_NoTwoDisappearingInARow ==
    LET log == platformManager.genLog
    IN \A i \in 2..Len(log) :
          ~(log[i - 1].type = "disappearing" /\ log[i].type = "disappearing")

\* C3: within a run the score never decreases, and an updateScore(n) with
\* n <= score leaves the score as it is.
C3_ScoreNeverDecreases ==
    [][/\ trace'.run = trace.run => game'.score >= game.score
       /\ \A k \in 1..Len(trace'.scoreCalls) :
             LET call == trace'.scoreCalls[k]
             IN /\ call.after >= call.before
                /\ call.newScore <= call.before => call.after = call.before]_vars

\* C3's case: a frame has called updateScore with less than the score, the
\* camera being lower than it has been
C3_Witness ==
    /\ trace.op = "frame"
    /\ game.score > 0
    /\ Abs(camera.y) \div 10 < game.score
    /\ \E k \in 1..Len(trace.scoreCalls) :
          trace.scoreCalls[k].newScore < trace.scoreCalls[k].before

\* C4: after every updateScore call the difficulty is 1 + floor(score / 1000),
\* also when the call crosses more than one 1000-point boundary.
C4_DifficultyFollowsScore ==
    /\ game.difficulty = 1 + game.score \div ThousandStep
    /\ \A k \in 1..Len(trace.scoreCalls) :
          trace.scoreCalls[k].difficulty = 1 + trace.scoreCalls[k].after \div ThousandStep

\* is p an active normal platform below the feet of a player at its starting
\* position, and does it overlap that position horizontally?
UnderStartingFeet(p) ==
    /\ p.active /\ p.type = "normal"
    /\ p.y >= (canvas.height - 150) + PlayerHeight
    /\ canvas.width \div 2 - 30 < p.x + p.width
    /\ canvas.width \div 2 - 30 + PlayerWidth > p.x

\* C5: when restart() has returned, score = 0, difficulty = 1,
\* lastDifficultyIncrease = 0, camera.y = camera.targetY = 0, the game is
\* running and not over, and the new platform collection holds an active
\* normal platform under the player's starting feet.
C5_RestartResets ==
    trace.op = "restart" =>
        /\ game.score = 0 /\ game.difficulty = 1 /\ game.lastDifficultyIncrease = 0
        /\ camera.y = 0 /\ camera.targetY = 0
        /\ ~game.isGameOver /\ game.isRunning
        /\ \E i \in 1..Len(platformManager.platforms) :
              UnderStartingFeet(platformManager.platforms[i])

\* the state of the session
Session ==
    IF game.isGameOver THEN "GameOver"
    ELSE IF game.isRunning THEN "Running"
    ELSE IF trace.everStarted THEN "Paused"
    ELSE "NotStarted"

\* C6: the session changes state only by NotStarted -> Running (start),
\* Running -> Paused (pause), Paused -> Running (resume), Running -> GameOver
\* and GameOver -> Running (restart).
C6_SessionTransitions ==
    [][Session' # Session =>
         \/ Session = "NotStarted" /\ Session' = "Running" /\ trace'.op = "start"
         \/ Session = "Running" /\ Session' = "Paused" /\ trace'.op = "pause"
         \/ Session = "Paused" /\ Session' = "Running" /\ trace'.op = "resume"
         \/ Session = "Running" /\ Session' = "GameOver"
         \/ Session = "GameOver" /\ Session' = "Running" /\ trace'.op = "restart"]_vars

\* C7: checkCollisions calls the player's handler for no platform while
\* velocityY <= 0, for active platforms only, and for no platform after the
\* one whose call reports a landing: one collision at most per call.
C7_OneCollisionPerCheck ==
    \A k \in 1..Len(trace.checks) :
        LET check == trace.checks[k]
            n == Len(check.calls)
        IN /\ check.velocityY <= 0 => n = 0 /\ ~check.collided
           /\ \A j \in 1..n : /\ check.calls[j].active
                              /\ check.calls[j].result => j = n
           /\ check.collided <=> (n > 0 /\ check.calls[n].result)

\* C7's case: the player has landed, on the first of several platforms that
\* it touches
C7_Witness ==
    /\ \E k \in 1..Len(trace.checks) :
          trace.checks[k].collided /\ Len(trace.checks[k].calls) = 1
    /\ Len(collisionCandidates(platformManager.platforms, player)) >= 2

\* has p been triggered by break() or startDisappearing()?
Triggered(p) ==
    \/ p.type = "breakable" /\ p.breakProgress > 0
    \/ p.type = "disappearing" /\ p.disappearTimer > 0

\* C8: a frame that updates the platforms lowers the opacity of every
\* triggered platform that it leaves in the collection.
C8_TriggeredPlatformsFade ==
    [][\A i \in 1..Len(platformManager.platforms) :
          (/\ Triggered(platformManager.platforms[i])
           /\ trace'.platformUpdates # << >>
           /\ trace'.run = trace.run)
          => \A j \in 1..Len(platformManager'.platforms) :
                platformManager'.platforms[j].id = platformManager.platforms[i].id
                => platformManager'.platforms[j].opacity
                      < platformManager.platforms[i].opacity]_vars

C10_ScoreIsPeakHeight ==
    game.score = trace.peak \div 10

\* the game as its constructor would build it on the present canvas
Fresh == Game(canvas.width, canvas.height, 0, PlainDraw, 0)

\* C11: when restart() has returned, every parameter that increaseDifficulty
\* adjusts has the value the constructors give it, whatever the difficulty
\* of the run before.
C11_RestartResetsDifficulty ==
    trace.op = "restart" =>
        /\ player.gravity = Fresh.player.gravity
        /\ player.jumpForce = Fresh.player.jumpForce
        /\ platformManager.minWidth = Fresh.platformManager.minWidth
        /\ platformManager.maxWidth = Fresh.platformManager.maxWidth
        /\ platformManager.platformHeight = Fresh.platformManager.platformHeight
        /\ platformManager.density = Fresh.platformManager.density
        /\ enemyManager = Fresh.enemyManager
        /\ camera.smoothing = Fresh.camera.smoothing

\* C12: from one increaseDifficulty call of a run to the next, gravity, the
\* enemies' spawnChance and maxSpeed and camera.smoothing do not go down and
\* jumpForce, minWidth, maxWidth, platformHeight and density do not go up;
\* no call passes a cap (0.8, 0.5, 5, 0.2; -20, 20, 60, 10, 5); and
\* minWidth <= maxWidth in every state.
C12_DifficultyRatchet ==
    /\ platformManager.minWidth <= platformManager.maxWidth
    /\ \A i \in 1..Len(trace.increases) :
          LET now == trace.increases[i]
          IN /\ now.gravity <= 80 /\ now.jumpForce >= -20
             /\ now.minWidth >= 20 /\ now.maxWidth >= 60
             /\ now.platformHeight >= 10 /\ now.density >= 5
             /\ now.spawnChance <= 50 /\ now.maxSpeed <= 50
             /\ now.smoothing <= 20
             /\ now.minWidth <= now.maxWidth
             /\ i > 1 =>
                   LET before == trace.increases[i - 1]
                   IN /\ now.gravity >= before.gravity
                      /\ now.jumpForce <= before.jumpForce
                      /\ now.minWidth <= before.minWidth
                      /\ now.maxWidth <= before.maxWidth
                      /\ now.platformHeight <= before.platformHeight
                      /\ now.density <= before.density
                      /\ now.spawnChance >= before.spawnChance
                      /\ now.maxSpeed >= before.maxSpeed
                      /\ now.smoothing >= before.smoothing

\* C12's case: one run has raised the difficulty beyond the level at which
\* the last parameter reaches its cap
C12_Witness ==
    /\ trace.op = "score"
    /\ Len(trace.increases) >= 7
    /\ player.gravity = 80 /\ player.jumpForce = -20
    /\ platformManager.minWidth = 20 /\ platformManager.density = 5
    /\ enemyManager.spawnChance = 50 /\ camera.smoothing = 20

\* C13: a difficulty increase (the first of a run, when no cap can have been
\* reached) leaves the generator with the vertical gap bounds lowered:
\* neither minGapY nor maxGapY is larger, and one of them is smaller.
C13_GapBoundsShrink ==
    [][(/\ game.difficulty = 1 /\ game'.difficulty = 2
        /\ trace'.run = trace.run)
       => /\ platformManager'.minGapY <= platformManager.minGapY
          /\ platformManager'.maxGapY <= platformManager.maxGapY
          /\ \/ platformManager'.minGapY < platformManager.minGapY
             \/ platformManager'.maxGapY < platformManager.maxGapY]_vars

\* C14: the highScore of either store changes only when gameOver writes a
\* strictly larger value: no leaderboard load or refresh writes it, and it
\* never decreases.
C14_HighScoreOnlyRises ==
    [][\A store \in {"local", "session"} :
          storage'[store].highScore # storage[store].highScore
          => /\ trace'.writes = <<"gameOver">>
             /\ parseInt(storage'[store].highScore)
                   > parseInt(storage[store].highScore)]_vars

\* C15: a handler that falls back to the sample data, or that runs
\* loadPlayerStats on them, leaves the stored username and highScore as
\* they are.
C15_SampleDataLeavesStorage ==
    [][(trace'.sample \/ trace'.stats = "sample")
       => \A store \in {"local", "session"} :
             /\ storage'[store].username = storage[store].username
             /\ storage'[store].highScore = storage[store].highScore]_vars

\* the platforms that generatePlatform has laid down with a score estimate
\* (|y| / 10) from low to high, both in tenths
GeneratedBetween(low, high) ==
    {i \in 1..Len(platformManager.genLog) :
        /\ ~platformManager.genLog[i].fixed
        /\ Abs(platformManager.genLog[i].y) >= low
        /\ Abs(platformManager.genLog[i].y) <= high}

\* C16: a platform that generatePlatform creates with a score estimate
\* below 300 is normal, bouncy or moving, and one with an estimate from 300
\* to 310 is normal or bouncy.
C16_TypeRespectsScoreBands ==
    /\ \A i \in GeneratedBetween(0, 2999) :
          platformManager.genLog[i].type \in {"normal", "bouncy", "moving"}
    /\ \A i \in GeneratedBetween(3000, 3100) :
          platformManager.genLog[i].type \in {"normal", "bouncy"}

\* C16's case: special platforms have been generated below 300, a platform
\* in the band from 300 to 310, and breakable or disappearing ones beyond it
C16_Witness ==
    /\ \E i \in GeneratedBetween(0, 2999) :
          platformManager.genLog[i].type \in {"bouncy", "moving"}
    /\ GeneratedBetween(3000, 3100) # {}
    /\ \E i \in GeneratedBetween(3101, 10000) :
          platformManager.genLog[i].type \in {"breakable", "disappearing"}

\* C17: an update that begins with a player whose x, y, velocityX or
\* velocityY is not finite resets it: x centred, y = camera.y + 0.7 *
\* canvas.height, velocityX = 0, a velocityY upwards, all four finite; and
\* the recovery does not take the player's life, which would end the game.
C17_NonFiniteRecovered ==
    \A k \in 1..Len(trace.recoveries) :
        LET before == trace.recoveries[k].before
            after == trace.recoveries[k].after
        IN before.kind # AllFinite =>
              /\ after.kind = AllFinite
              /\ after.x = canvas.width \div 2 - after.width \div 2
              /\ after.y = trace.recoveries[k].cameraY + (canvas.height * 7) \div 10
              /\ after.velocityX = 0 /\ after.velocityY < 0
              /\ after.isAlive = before.isAlive

\* the steps of a frame whose player is alive after its update
FrameOrder ==
    <<"player", "camera", "platforms", "enemies", "powerUps", "platformCollisions",
      "enemyCollisions", "powerUpCollisions", "background", "score", "render">>

\* C18: an animation frame that updates the camera (the game is running and
\* the player is alive after its own update) runs the steps player, camera,
\* platforms, enemies, power-ups, the three collision checks, background,
\* score and render once each, in this order.
C18_FrameStepsOnceInOrder ==
    [][(trace'.op = "frame" /\ \E k \in 1..Len(trace'.order) : trace'.order[k] = "camera")
       => trace'.order = FrameOrder]_vars

\* C19: while the game is over no update and no click on the pause button
\* changes anything: the player, the camera, the platforms, the score and
\* the difficulty change again only through restart(), and the game stays
\* over until then.
C19_GameOverIsTerminal ==
    [][(game.isGameOver /\ trace'.op # "restart")
       => /\ player' = player /\ camera' = camera
          /\ platformManager' = platformManager
          /\ game'.score = game.score /\ game'.difficulty = game.difficulty
          /\ game'.isGameOver /\ game'.isRunning = game.isRunning]_vars

\* C20: every delta time that gameLoop passes to update is at least 0 and at
\* most 50, in the frames and in the calls that start(), restart() and
\* resumeGame() make themselves.
C20_DeltaTimeClamped ==
    \A k \in 1..Len(trace.updates) :
        trace.updates[k] >= 0 /\ trace.updates[k] <= MaxDeltaTime

\* C21: at most one pending animation-frame callback would run update (the
\* game is running and not over), and a frame that finds the game paused,
\* stopped or over runs no update.
C21_OneCallbackChain ==
    /\ (game.isRunning /\ ~game.isGameOver) => Len(raf.queue) <= 1
    /\ (trace.op = "frame" /\ trace.updates # << >>) => game.isRunning \/ game.isGameOver

C23_ProgressAndOpacityInRange ==
    \A i \in 1..Len(platformManager.platforms) :
        LET p == platformManager.platforms[i]
        IN /\ p.breakProgress >= 0 /\ p.breakProgress <= 100
           /\ p.opacity >= 0 /\ p.opacity <= OpacityOne

\* the platforms the density top-up of the last update has added
Fillers ==
    {i \in 1..Len(platformManager.platforms) :
        /\ platformManager.platforms[i].origin = "filler"
        /\ platformManager.platforms[i].id >= platformManager.fill.from}

\* the top-up adds platforms only below the threshold, then exactly two,
\* and leaves highestPlatformY as it was
ToppedUp ==
    LET fill == platformManager.fill
    IN /\ Fillers # {} => fill.visible < fill.threshold
       /\ fill.visible < fill.threshold => Cardinality(Fillers) = 2
       /\ platformManager.highestPlatformY = fill.frontier

\* every platform the top-up added is normal, with y in
\* [cameraY + 100, cameraY + canvasHeight - 100]
FillersInView ==
    LET fill == platformManager.fill
    IN \A i \in Fillers :
          /\ platformManager.platforms[i].type = "normal"
          /\ platformManager.platforms[i].y >= fill.cameraY + 100
          /\ platformManager.platforms[i].y <= fill.cameraY + fill.canvasHeight - 100

\* C24 as stated: after PlatformManager.update the top-up has added platforms
\* only when fewer than density * platformDensity lay in the band, then
\* exactly two, each normal with y in [cameraY + 100, cameraY + canvasHeight
\* - 100], and highestPlatformY is unchanged.
C24_TopUpAsStated ==
    trace.platformUpdates # << >> => ToppedUp /\ FillersInView

\* C24: as stated, with the range of y claimed for canvases at least 200
\* high only (on a lower canvas the range is empty).
C24_TopUpOnCanvasOver200 ==
    trace.platformUpdates # << >> =>
        /\ ToppedUp
        /\ platformManager.fill.canvasHeight >= 200 => FillersInView

\* an update whose top-up added its two platforms
C24_Witness ==
    /\ trace.platformUpdates # << >>
    /\ Cardinality(Fillers) = 2
    /\ platformManager.fill.visible < platformManager.fill.threshold
    /\ platformManager.fill.canvasHeight >= 200

\* C25: once the difficulty has been increased in a run, lastDifficultyIncrease
\* is the score that crossed the boundary: at least 1000 * (difficulty - 1)
\* and at most the score.
C25_IncreaseRecordsCrossingScore ==
    trace.increases # << >> =>
        /\ game.lastDifficultyIncrease >= ThousandStep * (game.difficulty - 1)
        /\ game.lastDifficultyIncrease <= game.score

\* C26 as stated: the easing updateCamera applies when the player is falling
\* (velocityY > 0) is larger than the one it applies when the player is rising.
C26_FallingEasesFaster ==
    (trace.easingFalling > 0 /\ trace.easingRising > 0) =>
        trace.easingFalling > trace.easingRising

\* C26: the easing updateCamera applies when the player is falling
\* (velocityY > 0) is smaller than the one it applies when the player is
\* rising: the camera follows more slowly on the way down.
C26_FallingEasesSlower ==
    (trace.easingFalling > 0 /\ trace.easingRising > 0) =>
        trace.easingFalling < trace.easingRising

\* the camera has been eased both under a rising and under a falling player
C26_Witness ==
    /\ trace.easingFalling > 0 /\ trace.easingRising > 0
    /\ trace.op = "frame" /\ trace.updates # << >>

\* C27: checkExistingAuth returns true exactly when a token is stored in
\* localStorage or sessionStorage.
C27_ForwardOnlyWithToken ==
    nav.checked.done => (nav.checked.result <=> nav.checked.token)

\* the page shown is the one to stay on: no load is pending, and it is the
\* game page if a token is stored and the auth page if none is
Settled ==
    /\ nav.href = NoItem
    /\ nav.page = IF tokenStored(storage) THEN "index.html" ELSE "auth.html"

\* C30: whatever token and loginRedirect flag are stored, the redirects
\* between the auth page and the game page come to an end, on the game page
\* if a token is stored and on the auth page if none is.
C30_RedirectsEnd == <>[]Settled

\* the auth page has sent a user without a token to the game page and has
\* got them back
C30_Witness ==
    /\ Settled /\ nav.loads = 3 /\ nav.page = "auth.html"

\* C28: a game-over screen shows the score of the run in gold exactly when
\* that score exceeded the high score the game held when the run ended.
C28_NewHighScoreInGold ==
    \A k \in 1..Len(trace.screens) :
        trace.screens[k].gold <=> trace.screens[k].score > trace.held

\* C29: when the two requests that initLeaderboard starts have both been
\* answered and at least one of them has succeeded, the table and
\* window.allUsers hold the users of the server, not the sample users.
C29_ServerDataWins ==
    (/\ leaderboard.open /\ leaderboard.requests = 2 /\ leaderboard.fetches = << >>
     /\ leaderboard.succeeded >= 1)
        => /\ leaderboard.shown = sortByHighScore(server)
           /\ leaderboard.allUsers = [defined |-> TRUE, users |-> sortByHighScore(server)]

====
